---- MODULE Spec2Model ----
(***************************************************************************)
(* Model of the AT24CXX EEPROM controller class (at24cxx.h / at24cxx.cpp)  *)
(* together with the collaborators it drives: the Wire (I2C) bus with one  *)
(* AT24Cxx chip on it, the GPIO pins and delay().                          *)
(*                                                                         *)
(* One action per public method; writeN's for loop and readN's while loop  *)
(* advance one iteration per step, so a call that never returns is a run   *)
(* that never reaches its return.  Every Wire / GPIO / delay call the      *)
(* driver makes is appended to `trace`, in program order.                  *)
(***************************************************************************)
EXTENDS Integers, Sequences, FiniteSets, TLC

VARIABLES
    dev,      \* the AT24CXX object's fields (at24cxx.h:97-105)
    mem,      \* chip memory: written cells, address -> byte (others erased)
    present,  \* whether a chip answers on the bus
    pc,       \* "idle" (in the caller), "writeN" (in its for loop), "readN"
              \* (in its while loop) or "done" (the call has just returned)
    fr,       \* arguments and locals of the current / last call
    trace,    \* Wire, GPIO and delay calls made by the current / last call
    ret,      \* value returned by the last completed call
    mem0,     \* chip memory when the current / last call started
    lastWrite,\* the last write call that returned since begin(), if any
    busUsed,  \* whether any Wire call or delay was ever made
    nwrites   \* number of write calls that reached the bus so far

vars == <<dev, mem, present, pc, fr, trace, ret, mem0, lastWrite,
          busUsed, nwrites>>

----------------------------------------------------------------------------
(* Fixed-width integer helpers.                                            *)

RECURSIVE BitAnd(_, _)
BitAnd(a, b) ==
    IF a = 0 \/ b = 0 THEN 0
    ELSE ((a % 2) * (b % 2)) + (2 * BitAnd(a \div 2, b \div 2))

RECURSIVE BitOr(_, _)
BitOr(a, b) ==
    IF a = 0 THEN b
    ELSE IF b = 0 THEN a
    ELSE (IF a % 2 = 1 \/ b % 2 = 1 THEN 1 ELSE 0)
         + (2 * BitOr(a \div 2, b \div 2))

Shl(a, k) == a * (2 ^ k)
Shr(a, k) == a \div (2 ^ k)

U8(x) == x % 256

\* C integer division truncates toward zero.
CDiv(a, b) == IF a >= 0 THEN a \div b ELSE -((-a) \div b)

\* uint16_t + uint8_t: both operands are promoted to int, which is 32 bits
\* wide on the target (ESP32, main.cpp:8), so the sum does not wrap.
IntAdd16(a, b) == (a + b) % 65536
IntAdd(a, b) == a + b

----------------------------------------------------------------------------
(* Chip selection words (at24cxx.cpp:208-218).  A uint32_t is kept as its  *)
(* two 16-bit halves, so bit 20 of the word is bit 4 of hi, and so on.     *)

ChipWord(size, page, abytes, ovbits) ==
    [hi |-> BitOr(BitOr(BitOr(Shr(size, 16), Shl(page, 20 - 16)),
                        Shl(abytes, 28 - 16)), Shl(ovbits, 30 - 16)),
     lo |-> size % 65536]

AT24C01  == ChipWord(128, 8, 1, 0)
AT24C02  == ChipWord(256, 8, 1, 0)
AT24C04  == ChipWord(512, 16, 1, 1)
AT24C08  == ChipWord(1024, 16, 1, 2)
AT24C16  == ChipWord(2048, 16, 1, 3)
AT24C32  == ChipWord(4096, 32, 2, 0)
AT24C64  == ChipWord(8192, 32, 2, 0)
AT24C128 == ChipWord(16384, 64, 2, 0)
AT24C256 == ChipWord(32768, 64, 2, 0)
AT24C512 == ChipWord(65536, 128, 2, 0)

Catalog == {AT24C01, AT24C02, AT24C04, AT24C08, AT24C16,
            AT24C32, AT24C64, AT24C128, AT24C256, AT24C512}

AT24CXX_ADDR == 80
I2C_READ_BUFFER_SIZE == 32
EEPROM_WRITE_CYCLE_TIME_MS == 5

\* Arduino's pin levels and mode.
LOW == 0
HIGH == 1
OUTPUT == 1

----------------------------------------------------------------------------
(* Records of the calls made on the collaborators.                         *)

Op(name, a, b) == [op |-> name, a |-> a, b |-> b]

BusOps == {"beginTransmission", "write", "endTransmission", "requestFrom"}
GpioOps == {"pinMode", "digitalWrite"}

IsBus(e) == e.op \in BusOps
IsGpio(e) == e.op \in GpioOps
IsDelay(e) == e.op = "delay"

RECURSIVE Writes(_)
Writes(bytes) ==
    IF bytes = <<>> THEN <<>>
    ELSE <<Op("write", Head(bytes), 0)>> \o Writes(Tail(bytes))

\* endTransmission's status: 0 when the chip acknowledged, 2 (NACK on
\* address) when it did not.
Status(ack) == IF ack THEN 0 ELSE 2

----------------------------------------------------------------------------
(* The chip: a paged EEPROM.  The part on the bus is the part named in     *)
(* begin(), so its geometry is read from dev.                              *)

ERASED == 255

ReadMem(m, a) == IF a \in DOMAIN m THEN m[a] ELSE ERASED

StoreMem(m, a, v) ==
    [x \in (DOMAIN m) \cup {a} |-> IF x = a THEN v ELSE m[x]]

\* Memory cell selected by a device-address byte and the word-address bytes.
CellOf(devaddr, wa) ==
    IF dev.addr_bytes > 1
    THEN ((wa[1] * 256) + wa[2]) % dev.chip_size
    ELSE (((devaddr % (2 ^ dev.addr_ov_bits)) * 256) + wa[1]) % dev.chip_size

\* A page write wraps within the page.
NextInPage(p) ==
    ((p \div dev.page_size) * dev.page_size) + ((p + 1) % dev.page_size)

\* A sequential read wraps within the addressed 256-byte block on parts
\* with overflow bits, and at the end of the memory on the others.
NextInBlock(p) ==
    IF dev.addr_ov_bits > 0
    THEN ((p \div 256) * 256) + ((p + 1) % 256)
    ELSE (p + 1) % dev.chip_size

RECURSIVE PageWrite(_, _, _)
PageWrite(m, p, data) ==
    IF data = <<>> THEN [m |-> m, p |-> p]
    ELSE PageWrite(StoreMem(m, p, Head(data)), NextInPage(p), Tail(data))

RECURSIVE SeqRead(_, _, _)
SeqRead(m, p, cnt) ==
    IF cnt = 0 THEN [out |-> <<>>, p |-> p]
    ELSE LET r == SeqRead(m, NextInBlock(p), cnt - 1)
         IN  [out |-> <<ReadMem(m, p)>> \o r.out, p |-> r.p]

----------------------------------------------------------------------------
(* Inputs.                                                                 *)

\* A read loop that makes no progress is followed for MaxStalls requests.
MaxStalls == 2

\* Write calls that reach the bus, per run.
MaxWrites == 1

\* Addresses are taken on either side of each boundary of the configured
\* part: 0, one page, one 256-byte block, the capacity, and 2^16 (the end
\* of uint16_t).
Marks == {0, dev.page_size, 256, dev.chip_size, 65536}

Addresses == {a \in {m - 1 : m \in Marks} \cup Marks : a >= 0 /\ a <= 65535}

\* One byte, a pair that straddles a boundary, and a length above both the
\* 30-byte payload limit and the 32-byte read buffer.
Lengths == {1, 2, 33}

\* From an address that is on no page boundary: the longest payload sent
\* uncapped on a two-byte-address part, the shortest that is capped, and
\* the longest request.
LongRequests == {<<1, 30>>, <<1, 31>>, <<1, 255>>}

\* Ranges a caller writes; the long requests are made as the first write
\* of a run.
WriteRequests ==
    (Addresses \X Lengths) \cup (IF nwrites = 0 THEN LongRequests ELSE {})

\* Ranges a caller reads: any sampled range while nothing has been written
\* since begin(), and the range just written after a write (the read-back
\* of main.cpp:66-100).
ReadRequests ==
    IF lastWrite.valid
    THEN {<<lastWrite.address, lastWrite.n>>}
    ELSE (Addresses \X Lengths) \cup LongRequests

Selects == 0 .. 7

\* wp_pin as written at the call: -1 is the default argument.
WpPins == {-1, 4}

\* Arguments of begin(): every part with every select and no WP pin, and
\* every part with a WP pin.
BeginArgs ==
    {<<chip, s, -1>> : chip \in Catalog, s \in Selects}
        \cup {<<chip, 0, wp>> : chip \in Catalog, wp \in WpPins}

\* The caller's data: n distinct bytes.
TestData(n) == [i \in 1 .. n |-> U8(64 + i)]

\* The caller's output buffer before a multi-byte read (main.cpp:72).
OutBuffer(n) == [i \in 1 .. n |-> 0]

\* Possible contents of an uninitialized uint8_t local: whatever the stack
\* slot was left holding, e.g. the `val` of an earlier write(address, val).
UninitBytes == 0 .. 255

----------------------------------------------------------------------------
(* The controller (at24cxx.cpp).                                           *)

Void == [kind |-> "void", v |-> 0]
Pending == [kind |-> "pending", v |-> 0]
Bool(b) == [kind |-> "bool", v |-> IF b THEN 1 ELSE 0]
Byte(b) == [kind |-> "byte", v |-> b]

\* The fields as the constructor leaves them (lines 16-27).
FreshDev ==
    [chip_addr |-> 0, chip_size |-> 0, page_size |-> 0, addr_bytes |-> 0,
     addr_ov_bits |-> 0, mode |-> 0, wp_pin |-> U8(-1)]

\* No call in progress.  `args` holds the arguments of a begin() call and
\* `was` the fields as a call found them.
NoFrame ==
    [op |-> "none", form |-> "none", address |-> 0, n |-> 0, len |-> 0,
     vals |-> <<>>, page_size |-> 0, j |-> 0, pages_req |-> 0, i |-> 0,
     n_sent |-> 0, addr |-> 0, bytes_read |-> 0, ptr |-> 0, stalls |-> 0,
     args |-> <<>>, was |-> FreshDev]

\* The frame of a call that starts now.
Frame == [NoFrame EXCEPT !.was = dev]

NoWrite == [valid |-> FALSE, address |-> 0, n |-> 0, vals |-> <<>>,
            acked |-> FALSE]

\* AT24CXX::AT24CXX()
Init ==
    /\ dev = FreshDev
    /\ mem = <<>>
    /\ present \in BOOLEAN
    /\ pc = "idle"
    /\ fr = NoFrame
    /\ trace = <<>>
    /\ ret = Void
    /\ mem0 = <<>>
    /\ lastWrite = NoWrite
    /\ busUsed = FALSE
    /\ nwrites = 0

\* `_mode` as a condition (lines 56, 151, 181).
ActiveAlways == TRUE
Active == dev.mode # 0

\* `_wp_pin != -1`: _wp_pin is a uint8_t, promoted to int for the comparison.
WpConfigured(wp) == wp # -1

\* The assignments of begin() (lines 36-47) applied to the fields d.
ConfigureMerged(d, chip, chip_addr, wp_pin) ==
    [d EXCEPT
        !.chip_addr = BitOr(BitOr(d.chip_addr, AT24CXX_ADDR),
                            BitAnd(chip_addr, 7)),
        !.chip_size = (BitAnd(chip.hi, 1) * 65536) + chip.lo,
        !.page_size = U8(Shr(BitAnd(chip.hi, 4080), 20 - 16)),
        !.addr_bytes = U8(Shr(BitAnd(chip.hi, 12288), 28 - 16)),
        !.addr_ov_bits = U8(Shr(BitAnd(chip.hi, 49152), 30 - 16)),
        !.mode = 1,
        !.wp_pin = U8(wp_pin)]
Configure(d, chip, chip_addr, wp_pin) ==
    [d EXCEPT
        !.chip_addr = BitOr(AT24CXX_ADDR, BitAnd(chip_addr, 7)),
        !.chip_size = (BitAnd(chip.hi, 1) * 65536) + chip.lo,
        !.page_size = U8(Shr(BitAnd(chip.hi, 4080), 20 - 16)),
        !.addr_bytes = U8(Shr(BitAnd(chip.hi, 12288), 28 - 16)),
        !.addr_ov_bits = U8(Shr(BitAnd(chip.hi, 49152), 30 - 16)),
        !.mode = 1,
        !.wp_pin = U8(wp_pin)]

\* AT24CXX::begin
Begin(chip, chip_addr, wp_pin) ==
    /\ pc = "idle"
    /\ nwrites = 0
    /\ dev' = Configure(dev, chip, chip_addr, wp_pin)
    /\ trace' = IF WpConfigured(U8(wp_pin))
                THEN <<Op("pinMode", U8(wp_pin), OUTPUT),
                       Op("digitalWrite", U8(wp_pin), LOW)>>
                ELSE <<>>
    /\ fr' = [Frame EXCEPT !.op = "begin",
                           !.args = <<chip, chip_addr, wp_pin>>]
    /\ ret' = Void
    /\ mem0' = mem
    /\ lastWrite' = NoWrite
    /\ pc' = "done"
    /\ UNCHANGED <<mem, present, busUsed, nwrites>>

\* `endTransmission() == 0` (line 58).
AcknowledgedAny(status) == TRUE
Acknowledged(status) == status = 0

\* AT24CXX::isConnected
IsConnected ==
    /\ pc = "idle"
    /\ fr' = [Frame EXCEPT !.op = "isConnected"]
    /\ mem0' = mem
    /\ IF Active
       THEN /\ trace' = <<Op("beginTransmission", dev.chip_addr, 0),
                          Op("endTransmission", 1, Status(present))>>
            /\ ret' = Bool(Acknowledged(Status(present)))
            /\ busUsed' = TRUE
       ELSE /\ trace' = <<>>
            /\ ret' = Bool(FALSE)
            /\ UNCHANGED busUsed
    /\ pc' = "done"
    /\ UNCHANGED <<dev, mem, present, lastWrite, nwrites>>

\* AT24CXX::setWriteProtect
SetWriteProtect ==
    /\ pc = "idle"
    /\ trace' = IF WpConfigured(dev.wp_pin)
                THEN <<Op("digitalWrite", dev.wp_pin, HIGH)>>
                ELSE <<>>
    /\ fr' = [Frame EXCEPT !.op = "setWriteProtect"]
    /\ ret' = Void
    /\ mem0' = mem
    /\ pc' = "done"
    /\ UNCHANGED <<dev, mem, present, lastWrite, busUsed, nwrites>>

\* AT24CXX::clearWriteProtect
ClearWriteProtect ==
    /\ pc = "idle"
    /\ trace' = IF WpConfigured(dev.wp_pin)
                THEN <<Op("digitalWrite", dev.wp_pin, LOW)>>
                ELSE <<>>
    /\ fr' = [Frame EXCEPT !.op = "clearWriteProtect"]
    /\ ret' = Void
    /\ mem0' = mem
    /\ pc' = "done"
    /\ UNCHANGED <<dev, mem, present, lastWrite, busUsed, nwrites>>

----------------------------------------------------------------------------
(* writeN (at24cxx.cpp:149-176).                                           *)

\* `(uint32_t)(address + n) <= _chip_size`
InRange(address, n) == IntAdd(address, n) <= dev.chip_size

\* Page size used for the split (lines 152-154).
EffectivePageSixteen(n) == 16
EffectivePageUncapped(n) == dev.page_size
EffectivePage(n) ==
    IF dev.addr_bytes > 1 /\ n > 30 THEN 16 ELSE dev.page_size

\* `j = address % page_size` (line 155).
PageOffsetZero(address, page_size) == 0
PageOffset(address, page_size) == U8(address % page_size)

\* `pages_req = (((n + j - 1) / page_size) + 1)` (line 156).
PagesReqRoundedUp(n, j, page_size) == U8(CDiv(n + j, page_size) + 1)
PagesReq(n, j, page_size) == U8(CDiv(n + j - 1, page_size) + 1)

\* Device-address byte of a transaction at `cursor` (lines 160-162 and
\* 183-185); `addr` is the value the local holds before the assignment.
DeviceAddr(addr, cursor) ==
    IF dev.addr_ov_bits # 0
    THEN U8(BitOr(BitAnd(dev.chip_addr, 248), Shr(BitAnd(cursor, 1792), 8)))
    ELSE addr

\* Word-address bytes of a transaction at `cursor` (lines 164-166, 187-189).
WordAddrLowFirst(cursor) ==
    <<U8(cursor)>>
        \o (IF dev.addr_bytes > 1 THEN <<U8(Shr(cursor, 8))>> ELSE <<>>)
WordAddr(cursor) ==
    (IF dev.addr_bytes > 1 THEN <<U8(Shr(cursor, 8))>> ELSE <<>>)
        \o <<U8(cursor)>>

\* `while ((j++ < page_size) && (n_sent < n)) write(vals[n_sent++])`
RECURSIVE PayloadLoopOffByOne(_, _, _, _, _)
PayloadLoopOffByOne(j, page_size, n_sent, n, vals) ==
    IF j <= page_size /\ n_sent < n
    THEN LET r == PayloadLoopOffByOne(U8(j + 1), page_size, U8(n_sent + 1),
                                      n, vals)
         IN  [n_sent |-> r.n_sent, out |-> <<vals[n_sent + 1]>> \o r.out]
    ELSE [n_sent |-> n_sent, out |-> <<>>]
RECURSIVE PayloadLoop(_, _, _, _, _)
PayloadLoop(j, page_size, n_sent, n, vals) ==
    IF j < page_size /\ n_sent < n
    THEN LET r == PayloadLoop(U8(j + 1), page_size, U8(n_sent + 1), n, vals)
         IN  [n_sent |-> r.n_sent, out |-> <<vals[n_sent + 1]>> \o r.out]
    ELSE [n_sent |-> n_sent, out |-> <<>>]

\* Lines 150-158: the guard, and the locals as the loop finds them.
WriteN(form, address, vals, n) ==
    /\ pc = "idle"
    /\ mem0' = mem
    /\ trace' = <<>>
    /\ IF Active /\ InRange(address, n)
       THEN LET page_size == EffectivePage(n)
                j == PageOffset(address, page_size)
            IN  /\ nwrites < MaxWrites
                /\ nwrites' = nwrites + 1
                /\ fr' = [Frame EXCEPT !.op = "write", !.form = form,
                              !.address = address, !.n = n, !.len = n,
                              !.vals = vals, !.page_size = page_size,
                              !.j = j,
                              !.pages_req = PagesReq(n, j, page_size),
                              !.addr = dev.chip_addr]
                /\ pc' = IF PagesReq(n, j, page_size) > 0
                         THEN "writeN" ELSE "done"
                /\ ret' = IF PagesReq(n, j, page_size) > 0
                          THEN Pending ELSE Bool(TRUE)
                /\ lastWrite' = NoWrite
       ELSE /\ fr' = [Frame EXCEPT !.op = "write", !.form = form,
                          !.address = address, !.n = n, !.len = n,
                          !.vals = vals]
            /\ ret' = Bool(FALSE)
            /\ pc' = "done"
            /\ UNCHANGED <<nwrites, lastWrite>>
    /\ UNCHANGED <<dev, mem, present, busUsed>>

\* bool write(uint16_t address, uint8_t val)
WriteByte(address, val) == WriteN("byte", address, <<val>>, 1)

\* bool write(uint16_t address, uint8_t vals[], uint8_t n)
WriteBytes(address, vals, n) == WriteN("bytes", address, vals, n)

\* bool write(uint16_t address, const char str[], uint8_t n)
WriteChars(address, str, n) == WriteN("chars", address, str, n)

\* `j = 0` after each transaction (line 170); the argument is the value j
\* has when the payload loop is left.
PageOffsetKept(j) == j
PageOffsetAfter(j) == 0

\* Value returned once the loop is over (lines 173-175).
WriteResult == TRUE

\* `delay(EEPROM_WRITE_CYCLE_TIME_MS)` after each transaction (line 171).
WriteCycleSkipped == <<>>
WriteCycle == <<Op("delay", EEPROM_WRITE_CYCLE_TIME_MS, 0)>>

\* One iteration of the for loop (lines 159-172), and the return after the
\* last one.
WriteStep ==
    /\ pc = "writeN"
    /\ fr.i < fr.pages_req
    /\ LET cursor == fr.address + fr.n_sent
           addr == DeviceAddr(fr.addr, cursor)
           wa == WordAddr(cursor)
           lp == PayloadLoop(fr.j, fr.page_size, fr.n_sent, fr.len, fr.vals)
           w == PageWrite(mem, CellOf(addr, wa), lp.out)
           last == U8(fr.i + 1) >= fr.pages_req
       IN  /\ trace' = trace
                  \o <<Op("beginTransmission", addr, 0)>>
                  \o Writes(wa) \o Writes(lp.out)
                  \o <<Op("endTransmission", 1, Status(present))>>
                  \o WriteCycle
           /\ mem' = IF present THEN w.m ELSE mem
           /\ fr' = [fr EXCEPT !.addr = addr, !.n_sent = lp.n_sent,
                               !.j = PageOffsetAfter(
                                         U8(fr.j + Len(lp.out) + 1)),
                               !.i = U8(fr.i + 1),
                               !.ptr = IF present THEN w.p ELSE fr.ptr]
           /\ pc' = IF last THEN "done" ELSE "writeN"
           /\ ret' = IF last THEN Bool(WriteResult) ELSE Pending
           /\ lastWrite' = IF last
                           THEN [valid |-> TRUE, address |-> fr.address,
                                 n |-> fr.len, vals |-> fr.vals,
                                 acked |-> present]
                           ELSE lastWrite
    /\ busUsed' = TRUE
    /\ UNCHANGED <<dev, present, mem0, nwrites>>

----------------------------------------------------------------------------
(* readN (at24cxx.cpp:179-206).                                            *)

\* Lines 194-197.
BytesPerCycle(n, bytes_read) ==
    IF I2C_READ_BUFFER_SIZE < n - bytes_read
    THEN I2C_READ_BUFFER_SIZE
    ELSE U8(n - bytes_read)

\* `while (available()) vals[bytes_read++] = read();` on the bytes delivered.
RECURSIVE Drain(_, _, _)
Drain(vals, bytes_read, got) ==
    IF got = <<>> THEN [vals |-> vals, bytes_read |-> bytes_read]
    ELSE Drain([vals EXCEPT ![bytes_read + 1] = Head(got)],
               U8(bytes_read + 1), Tail(got))

\* What the caller receives when readN comes back with `ok`.
ReadReturn(form, vals, ok) ==
    IF form = "byte" THEN Byte(vals[1]) ELSE Bool(ok)

\* Lines 180-192: the guard and the address phase.  `n` is the length the
\* public method passes on, `asked` the length its caller gave.
ReadN(form, address, vals, n, asked) ==
    /\ pc = "idle"
    /\ mem0' = mem
    /\ IF Active /\ InRange(address, n)
       THEN LET addr == DeviceAddr(dev.chip_addr, address + 0)
                wa == WordAddr(address)
            IN  /\ trace' = <<Op("beginTransmission", addr, 0)>>
                       \o Writes(wa)
                       \o <<Op("endTransmission", 0, Status(present))>>
                /\ fr' = [Frame EXCEPT !.op = "read", !.form = form,
                              !.address = address, !.n = asked, !.len = n,
                              !.vals = vals, !.addr = addr,
                              !.ptr = IF present THEN CellOf(addr, wa)
                                      ELSE 0]
                /\ pc' = IF 0 < n THEN "readN" ELSE "done"
                /\ ret' = IF 0 < n THEN Pending
                          ELSE ReadReturn(form, vals, TRUE)
                /\ busUsed' = TRUE
       ELSE /\ trace' = <<>>
            /\ fr' = [Frame EXCEPT !.op = "read", !.form = form,
                          !.address = address, !.n = asked, !.len = n,
                          !.vals = vals]
            /\ ret' = ReadReturn(form, vals, FALSE)
            /\ pc' = "done"
            /\ UNCHANGED busUsed
    /\ UNCHANGED <<dev, mem, present, lastWrite, nwrites>>

\* uint8_t read(uint16_t address): `byte` is not initialized.
ReadByte(address, garbage) ==
    ReadN("byte", address, <<garbage>>, 1, 1)

\* Contents of `byte` that read(address) is followed with.  When readN
\* refuses the request the content is what the caller receives, and every
\* byte value is followed.  When readN accepts it the content is never
\* read: the loop stores a byte over it before readN returns, or readN does
\* not return; one value then stands for all.
ByteContents(address) ==
    IF Active /\ InRange(address, 1) THEN {0} ELSE UninitBytes

\* Length the byte-array read hands to readN (line 116).
ReadBytesLen(n) == 1

\* bool read(uint16_t address, uint8_t* vals, uint8_t n)
ReadBytes(address, vals, n) ==
    ReadN("bytes", address, vals, ReadBytesLen(n), n)

\* bool read(uint16_t address, char str[], uint8_t n)
ReadChars(address, str, n) ==
    ReadN("chars", address, str, n, n)

\* Device address of a requestFrom (line 198): the local `addr` set for the
\* address phase, whatever address the read has reached.
RequestAddrAtCursor(addr, cursor) == DeviceAddr(addr, cursor)
RequestAddr(addr, cursor) == addr

\* One iteration of the while loop (lines 193-202), and the return once
\* bytes_read has reached n.
ReadStep ==
    /\ pc = "readN"
    /\ fr.bytes_read < fr.len
    /\ fr.stalls < MaxStalls
    /\ LET bytes_per_cycle == BytesPerCycle(fr.len, fr.bytes_read)
           r == SeqRead(mem, fr.ptr, bytes_per_cycle)
           d == Drain(fr.vals, fr.bytes_read,
                      IF present THEN r.out ELSE <<>>)
           done == ~(d.bytes_read < fr.len)
       IN  /\ trace' = trace
                  \o <<Op("requestFrom",
                          RequestAddr(fr.addr, fr.address + fr.bytes_read),
                          bytes_per_cycle)>>
           /\ fr' = [fr EXCEPT !.vals = d.vals, !.bytes_read = d.bytes_read,
                               !.ptr = IF present THEN r.p ELSE fr.ptr,
                               !.stalls = IF d.bytes_read = fr.bytes_read
                                          THEN fr.stalls + 1 ELSE 0]
           /\ pc' = IF done THEN "done" ELSE "readN"
           /\ ret' = IF done THEN ReadReturn(fr.form, d.vals, TRUE)
                     ELSE Pending
    /\ UNCHANGED <<dev, mem, present, mem0, lastWrite, busUsed, nwrites>>

----------------------------------------------------------------------------

\* Control is back in the caller: the call's locals and its record of
\* collaborator calls are dropped.
Return ==
    /\ pc = "done"
    /\ pc' = "idle"
    /\ fr' = NoFrame
    /\ trace' = <<>>
    /\ ret' = Void
    /\ mem0' = mem
    /\ UNCHANGED <<dev, mem, present, lastWrite, busUsed, nwrites>>

Next ==
    \/ \E b \in BeginArgs : Begin(b[1], b[2], b[3])
    \/ IsConnected
    \/ \E r \in WriteRequests : WriteByte(r[1], TestData(1)[1])
    \/ \E r \in WriteRequests : WriteBytes(r[1], TestData(r[2]), r[2])
    \/ \E r \in WriteRequests : WriteChars(r[1], TestData(r[2]), r[2])
    \/ WriteStep
    \/ \E a \in {r[1] : r \in ReadRequests} :
           \E g \in ByteContents(a) : ReadByte(a, g)
    \/ \E r \in ReadRequests : ReadBytes(r[1], OutBuffer(r[2]), r[2])
    \/ \E r \in ReadRequests : ReadChars(r[1], OutBuffer(r[2]), r[2])
    \/ ReadStep
    \/ SetWriteProtect
    \/ ClearWriteProtect
    \/ Return

Spec == Init /\ [][Next]_vars

----------------------------------------------------------------------------
(* Reading the record of a call.                                           *)

\* Positions of the beginTransmission calls, i.e. of the bus transactions.
Begins(t) == {k \in DOMAIN t : t[k].op = "beginTransmission"}

\* Position of the endTransmission that closes the transaction begun at k.
EndOf(t, k) ==
    CHOOSE e \in (k + 1) .. Len(t) :
        /\ t[e].op = "endTransmission"
        /\ \A x \in (k + 1) .. (e - 1) : t[x].op = "write"

\* Bytes queued in the transaction begun at k: word address, then payload.
TxBytes(t, k) == [x \in 1 .. (EndOf(t, k) - k - 1) |-> t[k + x].a]

\* Payload length of the transaction begun at k.
PayloadLen(t, k) == Len(TxBytes(t, k)) - dev.addr_bytes

RECURSIVE SumPayload(_, _)
SumPayload(t, ks) ==
    IF ks = {} THEN 0
    ELSE LET k == CHOOSE x \in ks : TRUE
         IN  PayloadLen(t, k) + SumPayload(t, ks \ {k})

\* Memory address a call that started at `address` has reached when it
\* begins the transaction at k: the start plus the payload already sent.
CursorAt(t, address, k) ==
    address + SumPayload(t, {b \in Begins(t) : b < k})

RECURSIVE SumRequested(_, _)
SumRequested(t, ks) ==
    IF ks = {} THEN 0
    ELSE LET k == CHOOSE x \in ks : TRUE
         IN  t[k].b + SumRequested(t, ks \ {k})

\* Bytes asked of the bus by all requestFrom calls.
Requested(t) ==
    SumRequested(t, {k \in DOMAIN t : t[k].op = "requestFrom"})

NoBusTraffic(t) == \A k \in DOMAIN t : ~IsBus(t[k]) /\ ~IsDelay(t[k])
NoGpio(t) == \A k \in DOMAIN t : ~IsGpio(t[k])

\* Bytes the chip holds at address .. address + n - 1.
ChipBytes(m, address, n) == [i \in 1 .. n |-> ReadMem(m, address + i - 1)]

WriteDone == pc = "done" /\ fr.op = "write"
ReadDone == pc = "done" /\ fr.op = "read"

\* A request the contract covers: 1 <= N <= 255 and A + N <= capacity.
ValidRange(address, n) ==
    n >= 1 /\ n <= 255 /\ address + n <= dev.chip_size

----------------------------------------------------------------------------
(* Properties.                                                             *)

\* C1 (round-trip): on an acknowledging chip, a write(A, buf, N) with
\* 1 <= N <= 255 and A + N <= capacity followed by the char-array
\* read(A, out, N) leaves out equal to buf.
C1_RoundTrip ==
    ( /\ ReadDone /\ fr.form = "chars"
      /\ present /\ dev.mode # 0
      /\ lastWrite.valid /\ lastWrite.acked
      /\ fr.address = lastWrite.address /\ fr.n = lastWrite.n
      /\ ValidRange(fr.address, fr.n) )
    => fr.vals = lastWrite.vals

\* C2 (write bounds): on an Active controller a write with A + N > capacity
\* returns false at once, with no bus operation and no delay, and leaves the
\* chip as it was.
C2_WriteBounds ==
    (fr.op = "write" /\ dev.mode # 0 /\ fr.address + fr.n > dev.chip_size)
    => /\ pc = "done"
       /\ ret = Bool(FALSE)
       /\ NoBusTraffic(trace)
       /\ mem = mem0

\* A rejected write at A = 65535 on the 65536-byte part has returned.
C2_Witness ==
    /\ WriteDone /\ dev.mode # 0
    /\ dev.chip_size = 65536 /\ fr.address = 65535 /\ fr.n = 2
    /\ ret = Bool(FALSE)

\* Device-address byte the encoding of C3 asks for, on a part with k
\* overflow bits: the low k bits are bits [8+k-1 : 8] of the cursor, the
\* bits above are those of 0x50 | select.
ExpectedDeviceAddr(cursor) ==
    LET k == dev.addr_ov_bits
    IN  ((dev.chip_addr \div (2 ^ k)) * (2 ^ k)) + ((cursor \div 256) % (2 ^ k))

\* C3 (device-address encoding): on a part with overflow bits every write
\* transaction and every read address phase is sent to the device address
\* whose low k bits are the cursor's bits [8+k-1 : 8] and whose upper bits are
\* those of 0x50 | select.
C3_DeviceAddress ==
    (fr.op \in {"write", "read"} /\ dev.addr_ov_bits > 0)
    => \A k \in Begins(trace) :
           trace[k].a = ExpectedDeviceAddr(CursorAt(trace, fr.address, k))

\* Effective page size as C4 states it.
ClaimedPage(n) ==
    IF dev.addr_bytes = 2 /\ n > 30 THEN 16 ELSE dev.page_size

\* C4 (paging correctness): a valid write issues ceil((N + (A mod P)) / P)
\* transactions, where P is the effective page size, and none carries more
\* than P payload bytes.
C4_Paging ==
    (WriteDone /\ dev.mode # 0 /\ ValidRange(fr.address, fr.n))
    => LET P == ClaimedPage(fr.n)
       IN  /\ Cardinality(Begins(trace))
                  = (fr.n + (fr.address % P) + P - 1) \div P
           /\ \A k \in Begins(trace) : PayloadLen(trace, k) <= P

\* A 33-byte write to a two-byte-address part, split at the capped page
\* size into three transactions.
C4_Witness ==
    /\ WriteDone /\ ret = Bool(TRUE)
    /\ dev.addr_bytes = 2 /\ dev.page_size > 16 /\ fr.n = 33
    /\ Cardinality(Begins(trace)) = 3

\* C5 (locality): during and after a valid write to [A, A+N) every chip
\* cell outside [A, A+N) holds the value it held before the write.
C5_Locality ==
    (fr.op = "write" /\ dev.mode # 0 /\ ValidRange(fr.address, fr.n))
    => \A a \in (DOMAIN mem) \cup (DOMAIN mem0) :
           (a < fr.address \/ a >= fr.address + fr.n)
           => ReadMem(mem, a) = ReadMem(mem0, a)

\* A write that straddles a page boundary has stored all its bytes.
C5_Witness ==
    /\ WriteDone /\ present /\ ret = Bool(TRUE)
    /\ fr.n = 33 /\ fr.address % dev.page_size = dev.page_size - 1
    /\ Cardinality(DOMAIN mem) = 33

\* C6 (byte-array read): read(address, vals, n) with address + n <=
\* capacity asks the bus for n bytes in total, stores the chip bytes at
\* address .. address+n-1 into vals, and returns true.
C6_ReadBytes ==
    ( /\ ReadDone /\ fr.form = "bytes" /\ present /\ dev.mode # 0
      /\ ValidRange(fr.address, fr.n) )
    => /\ Requested(trace) = fr.n
       /\ fr.vals = ChipBytes(mem, fr.address, fr.n)
       /\ ret = Bool(TRUE)

\* C7 (read bounds): on an Active controller a multi-byte read, in either
\* form, with address + n > capacity returns false and touches no bus.
C7_ReadBounds ==
    ( /\ fr.op = "read" /\ fr.form \in {"bytes", "chars"} /\ dev.mode # 0
      /\ fr.address + fr.n > dev.chip_size )
    => /\ pc = "done"
       /\ ret = Bool(FALSE)
       /\ NoBusTraffic(trace)

\* C8 (gating): until begin() is called every isConnected, write and read
\* call returns false (the single-byte read returns no boolean), no Wire
\* call and no delay is ever made, and only begin() makes the controller
\* Active.
C8_Gating ==
    /\ [](dev.mode = 0 =>
            /\ ~busUsed
            /\ NoBusTraffic(trace)
            /\ pc \in {"idle", "done"}
            /\ (ret.kind = "bool" => ret = Bool(FALSE))
            /\ mem = << >>)
    /\ [][(dev.mode = 0 /\ dev'.mode # 0) => fr'.op = "begin"]_vars

\* Calls of each boolean kind have returned on a controller never begun.
C8_Witness ==
    /\ dev.mode = 0 /\ pc = "done"
    /\ fr.op = "write" /\ fr.address = 0 /\ fr.n = 1
    /\ ret = Bool(FALSE)

\* Whether a WP pin was supplied to begin(): the default argument leaves
\* _wp_pin holding (uint8_t)-1.
WpSupplied == dev.mode # 0 /\ dev.wp_pin # U8(-1)

\* C9 (write-protect): with a WP pin supplied to begin(), setWriteProtect
\* drives it HIGH and clearWriteProtect drives it LOW; with none supplied,
\* or before begin(), setWriteProtect, clearWriteProtect and begin() make no
\* GPIO call.
C9_WriteProtect ==
    /\ (fr.op = "setWriteProtect" /\ WpSupplied)
       => trace = <<Op("digitalWrite", dev.wp_pin, HIGH)>>
    /\ (fr.op = "clearWriteProtect" /\ WpSupplied)
       => trace = <<Op("digitalWrite", dev.wp_pin, LOW)>>
    /\ ( /\ fr.op \in {"begin", "setWriteProtect", "clearWriteProtect"}
         /\ ~WpSupplied )
       => NoGpio(trace)

\* C10 (truthful result): a write returns true only if every
\* endTransmission it made returned status 0.
C10_TruthfulWrite ==
    (WriteDone /\ ret = Bool(TRUE))
    => \A k \in DOMAIN trace :
           trace[k].op = "endTransmission" => trace[k].b = 0

\* C11 (write-cycle ordering): every endTransmission of a write is sent
\* with STOP and is immediately followed, before any further bus operation
\* and before the write returns, by a delay of at least 5 ms; this holds
\* after the last transaction as well.
C11_WriteCycle ==
    (fr.op = "write")
    => \A k \in DOMAIN trace :
           (trace[k].op = "endTransmission")
           => /\ trace[k].a = 1
              /\ k < Len(trace)
              /\ trace[k + 1].op = "delay"
              /\ trace[k + 1].a >= 5

\* A write of several transactions has returned, its last call a delay.
C11_Witness ==
    /\ WriteDone /\ ret = Bool(TRUE)
    /\ Cardinality(Begins(trace)) >= 2
    /\ trace[Len(trace)].op = "delay"

\* First and last transaction of the record.
FirstBegin(t) == CHOOSE k \in Begins(t) : \A x \in Begins(t) : k <= x
LastBegin(t) == CHOOSE k \in Begins(t) : \A x \in Begins(t) : x <= k

\* C12 (page-boundary alignment): in a valid write every transaction after
\* the first starts at a cursor that is a multiple of the effective page
\* size P, and once the write has returned every transaction other than
\* the first and the last carried exactly P payload bytes.
C12_PageAligned ==
    (fr.op = "write" /\ dev.mode # 0 /\ ValidRange(fr.address, fr.n))
    => LET P == ClaimedPage(fr.n)
       IN  \A k \in Begins(trace) :
               /\ (k # FirstBegin(trace))
                  => CursorAt(trace, fr.address, k) % P = 0
               /\ (WriteDone /\ k # FirstBegin(trace) /\ k # LastBegin(trace))
                  => PayloadLen(trace, k) = P

\* A write from an address inside a page, in three or more transactions.
C12_Witness ==
    /\ WriteDone /\ ret = Bool(TRUE) /\ ValidRange(fr.address, fr.n)
    /\ fr.address % ClaimedPage(fr.n) # 0
    /\ Cardinality(Begins(trace)) >= 3

\* Positions of the requestFrom calls.
Requests(t) == {k \in DOMAIN t : t[k].op = "requestFrom"}

\* ceil(n / 32)
ReadCycles(n) == (n + 31) \div 32

\* C13 (no retry on read): a valid char-array read of N bytes makes at most
\* ceil(N / 32) requestFrom calls, each for min(remaining, 32) bytes where
\* remaining is N less the bytes already asked for, and has made exactly
\* ceil(N / 32) when it returns, whatever the bus delivers.
C13_NoReadRetry ==
    ( /\ fr.op = "read" /\ fr.form = "chars" /\ dev.mode # 0
      /\ ValidRange(fr.address, fr.n) )
    => /\ Cardinality(Requests(trace)) <= ReadCycles(fr.n)
       /\ \A k \in Requests(trace) :
              LET remaining ==
                      fr.n - SumRequested(trace,
                                          {x \in Requests(trace) : x < k})
              IN  trace[k].b = IF remaining < 32 THEN remaining ELSE 32
       /\ ReadDone => Cardinality(Requests(trace)) = ReadCycles(fr.n)

\* C14 (isConnected): on an Active controller isConnected makes exactly two
\* collaborator calls, a beginTransmission to the controller's device
\* address directly followed by an endTransmission (no word-address byte,
\* no data byte, no delay), returns true exactly when that endTransmission
\* returned 0, and leaves every field of the controller as it found it.
C14_IsConnected ==
    (fr.op = "isConnected" /\ fr.was.mode # 0)
    => /\ Len(trace) = 2
       /\ trace[1] = Op("beginTransmission", fr.was.chip_addr, 0)
       /\ trace[2].op = "endTransmission"
       /\ ret = Bool(trace[2].b = 0)
       /\ dev = fr.was

\* The probe of an Active controller has come back unacknowledged.
C14_Witness ==
    /\ fr.op = "isConnected" /\ pc = "done" /\ dev.mode # 0
    /\ Len(trace) = 2 /\ trace[2].b # 0
    /\ ret = Bool(FALSE)

\* C15 (re-configuration replaces): after any begin(V, s, wp), whatever
\* was configured before, the fields every later operation works from are
\* those a fresh controller holds after the same begin(V, s, wp); and no
\* call that found the controller Active leaves it Uninitialized.
C15_Reconfigure ==
    /\ (fr.op = "begin")
       => dev = Configure(FreshDev, fr.args[1], fr.args[2], fr.args[3])
    /\ (fr.op # "none" /\ fr.was.mode # 0) => dev.mode # 0

\* begin() has returned on a controller that was Active for another part
\* at another device address.
C15_Witness ==
    /\ fr.op = "begin" /\ pc = "done"
    /\ fr.was.mode # 0
    /\ fr.was.chip_size # dev.chip_size
    /\ fr.was.chip_addr # dev.chip_addr

\* C16 (no transaction spans a chip boundary): in a valid write the
\* payload of each transaction lies within one physical page of the part
\* (pages of the catalog's page size, also when the split uses 16) and, on
\* a part with overflow bits, within one 256-byte block; so on an
\* acknowledging chip the bytes are stored at A .. A+N-1.
C16_NoSpan ==
    (fr.op = "write" /\ dev.mode # 0 /\ ValidRange(fr.address, fr.n))
    => /\ \A k \in Begins(trace) :
              LET c == CursorAt(trace, fr.address, k)
                  e == c + PayloadLen(trace, k) - 1
              IN  (e >= c)
                  => /\ c \div dev.page_size = e \div dev.page_size
                     /\ (dev.addr_ov_bits > 0) => (c \div 256 = e \div 256)
       /\ (WriteDone /\ present)
          => ChipBytes(mem, fr.address, fr.n) = fr.vals

\* A stored write whose range crosses a 256-byte block of a part with
\* overflow bits.
C16_Witness ==
    /\ WriteDone /\ ret = Bool(TRUE) /\ present
    /\ dev.addr_ov_bits > 0
    /\ fr.address < 256 /\ fr.address + fr.n > 256
    /\ Cardinality(Begins(trace)) >= 2

\* C17 (bus-buffer fit): in a valid write every transaction queues at most
\* 32 bytes between beginTransmission and endTransmission, word-address
\* bytes included, and on a two-byte-address part at most 30 payload bytes.
C17_BufferFit ==
    (fr.op = "write" /\ dev.mode # 0 /\ ValidRange(fr.address, fr.n))
    => \A k \in Begins(trace) :
           /\ Len(TxBytes(trace, k)) <= 32
           /\ (dev.addr_bytes = 2) => (PayloadLen(trace, k) <= 30)

\* A transaction of a two-byte-address part that fills the 32 bytes.
C17_Witness ==
    /\ WriteDone /\ ret = Bool(TRUE) /\ dev.addr_bytes = 2
    /\ \E k \in Begins(trace) : Len(TxBytes(trace, k)) = 32

\* C18 (read protocol order): the record of a successful multi-byte read
\* is one address phase followed by requestFrom calls only.  The address
\* phase is a beginTransmission to the device address of the start address
\* A (on a part with k overflow bits its low k bits are bits [8+k-1 : 8]
\* of A, otherwise it is the configured address), the word-address bytes
\* and an endTransmission without STOP; every requestFrom goes to that same
\* device address, also when [A, A+N) crosses a 256-byte block; there is no
\* payload write, no second address phase and no delay.
C18_ReadOrder ==
    (ReadDone /\ fr.form \in {"bytes", "chars"} /\ ret = Bool(TRUE))
    => LET ab == dev.addr_bytes
           k == dev.addr_ov_bits
       IN  /\ Len(trace) >= ab + 3
           /\ trace[1].op = "beginTransmission"
           /\ IF k > 0
              THEN trace[1].a % (2 ^ k) = (fr.address \div 256) % (2 ^ k)
              ELSE trace[1].a = dev.chip_addr
           /\ \A x \in 2 .. (ab + 1) : trace[x].op = "write"
           /\ trace[ab + 2].op = "endTransmission"
           /\ trace[ab + 2].a = 0
           /\ \A x \in (ab + 3) .. Len(trace) :
                  /\ trace[x].op = "requestFrom"
                  /\ trace[x].a = trace[1].a

\* A 33-byte read in two requests that crosses the first 256-byte block of
\* a part with overflow bits.
C18_Witness ==
    /\ ReadDone /\ fr.form = "chars" /\ ret = Bool(TRUE) /\ present
    /\ dev.addr_ov_bits > 0
    /\ fr.address = 255 /\ fr.n = 33
    /\ Cardinality(Requests(trace)) = 2

\* C19 (word-address encoding): every write transaction and every read
\* address phase queues, directly after beginTransmission, addr_bytes (1
\* or 2) bytes that are the low 8 * addr_bytes bits of the transaction's
\* cursor, most-significant byte first; a read address phase queues
\* nothing else.
C19_WordAddress ==
    (fr.op \in {"write", "read"})
    => \A k \in Begins(trace) :
           LET c == CursorAt(trace, fr.address, k)
               tx == TxBytes(trace, k)
           IN  /\ dev.addr_bytes \in {1, 2}
               /\ Len(tx) >= dev.addr_bytes
               /\ (fr.op = "read") => Len(tx) = dev.addr_bytes
               /\ (dev.addr_bytes = 1) => tx[1] = c % 256
               /\ (dev.addr_bytes = 2)
                  => (tx[1] = (c \div 256) % 256 /\ tx[2] = c % 256)

\* A later transaction of a write to a two-byte-address part, at a cursor
\* whose two address bytes are different and not zero.
C19_Witness ==
    /\ WriteDone /\ ret = Bool(TRUE) /\ dev.addr_bytes = 2
    /\ \E k \in Begins(trace) \ {FirstBegin(trace)} :
           LET tx == TxBytes(trace, k)
           IN  tx[1] # 0 /\ tx[2] # 0 /\ tx[1] # tx[2]

\* Payload bytes of the transaction begun at k.
Payload(t, k) ==
    SubSeq(TxBytes(t, k), dev.addr_bytes + 1, Len(TxBytes(t, k)))

\* Payloads of the transactions ks, in the order they were issued.
RECURSIVE ConcatPayload(_, _)
ConcatPayload(t, ks) ==
    IF ks = {} THEN <<>>
    ELSE LET k == CHOOSE x \in ks : \A y \in ks : x <= y
         IN  Payload(t, k) \o ConcatPayload(t, ks \ {k})

\* C20 (payload completeness): in a valid write no transaction has an empty
\* payload, the payloads issued so far, concatenated in issue order, are
\* the first bytes of buf, and once the write has returned they are
\* buf[0..N) exactly.
C20_PayloadComplete ==
    (fr.op = "write" /\ dev.mode # 0 /\ ValidRange(fr.address, fr.n))
    => LET sent == ConcatPayload(trace, Begins(trace))
       IN  /\ \A k \in Begins(trace) : PayloadLen(trace, k) >= 1
           /\ Len(sent) <= fr.n
           /\ sent = SubSeq(fr.vals, 1, Len(sent))
           /\ WriteDone => sent = fr.vals

\* The longest write has returned with all 255 bytes sent.
C20_Witness ==
    /\ WriteDone /\ ret = Bool(TRUE) /\ fr.n = 255
    /\ Len(ConcatPayload(trace, Begins(trace))) = 255

====
